---- MODULE Spec2Model ----
(***************************************************************************)
(* Model of the gdbm-native bucket / directory core:                       *)
(*   src/src/bucket.rs  BucketElement, Bucket (codec), BucketCache         *)
(*   src/src/dir.rs     build_dir_size                                     *)
(*                                                                         *)
(* Three specifications share one variable list:                           *)
(*   Spec       the BucketCache object under arbitrary call sequences      *)
(*   SpecCodec  serialize / from_reader of BucketElement and Bucket        *)
(*   SpecDir    the build_dir_size loop                                    *)
(***************************************************************************)
EXTENDS Integers, Sequences, FiniteSets, TLC

VARIABLES
    \* ---- BucketCache (bucket.rs:140-143) ----
    bucket_map,   \* HashMap<u64, Bucket>: function from loaded offsets to buckets
    dirty,        \* HashMap<u64, bool>:   function from dirty offsets to TRUE
    ret,          \* value returned by the last call (<<>> for a call returning ())
    lastOp,       \* name of the last method called
    lastOfs,      \* its offset argument (0 when it has none)
    pre,          \* the cache fields as they were before the last call
    marked,       \* offsets passed to update/dirty since the last clear_dirty
    \* ---- codec (bucket.rs:20-136) ----
    kind,         \* "elem" or "bucket": which structure is being transported
    header,       \* [is_lfs, bucket_elems, dir_bits]
    is_le,        \* byte order handed to serialize
    elem,         \* the in-memory BucketElement
    bucket,       \* the in-memory Bucket
    rdr,          \* the byte source: [buf, cut]
    out,          \* result of from_reader
    cpc,          \* "start" -> "bytes" -> "done"
    \* ---- build_dir_size (dir.rs:17-27) ----
    block_sz,
    db_is_lfs,    \* offset width of the database the directory is built for
    dir_size,
    dir_bits,
    dpc           \* "loop" or "done"

cacheVars == <<bucket_map, dirty, ret, lastOp, lastOfs, pre, marked>>
codecVars == <<kind, header, is_le, elem, bucket, rdr, out, cpc>>
dirVars == <<block_sz, db_is_lfs, dir_size, dir_bits, dpc>>
vars == <<cacheVars, codecVars, dirVars>>

----------------------------------------------------------------------------
(* Bounds *)

MaxOffsets == 3     \* distinct bucket offsets the cache is called with
MaxBuckets == 2     \* distinct bucket contents the cache is called with
BucketElems == 1    \* header.bucket_elems of the database being decoded
DirBits == 1        \* header.dir_bits of the database being decoded
MaxCut == 7         \* longest first chunk of a source delivered in two chunks

Offsets == {100 * i : i \in 1..MaxOffsets}
BucketIds == 1..MaxBuckets

----------------------------------------------------------------------------
(* Generic helpers *)

Range(s) == {s[i] : i \in DOMAIN s}

Min(a, b) == IF a < b THEN a ELSE b

EmptyMap == [x \in {} |-> TRUE]

\* HashMap::insert(k, v)
MapInsert(m, k, v) == [x \in (DOMAIN m) \cup {k} |-> IF x = k THEN v ELSE m[x]]

\* the orders in which iterating a HashMap may yield its keys
IterOrders(m) ==
    {s \in [1..Cardinality(DOMAIN m) -> DOMAIN m] : Range(s) = DOMAIN m}

RECURSIVE InsertSorted(_, _)
InsertSorted(x, s) ==
    IF s = <<>> THEN <<x>>
    ELSE IF x <= Head(s) THEN <<x>> \o s
    ELSE <<Head(s)>> \o InsertSorted(x, Tail(s))

\* Vec<u64>::sort
RECURSIVE Sort(_)
Sort(s) == IF s = <<>> THEN <<>> ELSE InsertSorted(Head(s), Sort(Tail(s)))

----------------------------------------------------------------------------
(* BucketCache *)

IdleCache ==
    /\ bucket_map = EmptyMap
    /\ dirty = EmptyMap
    /\ ret = <<>>
    /\ lastOp = "new"
    /\ lastOfs = 0
    /\ pre = [bucket_map |-> EmptyMap, dirty |-> EmptyMap]
    /\ marked = {}

\* bookkeeping common to every call: which call, on what, from which fields
Called(op, ofs) ==
    /\ lastOp' = op
    /\ lastOfs' = ofs
    /\ pre' = [bucket_map |-> bucket_map, dirty |-> dirty]

\* BucketCache::dirty
Dirty(bucket_ofs) ==
    /\ dirty' = MapInsert(dirty, bucket_ofs, TRUE)
    /\ marked' = marked \cup {bucket_ofs}
    /\ Called("dirty", bucket_ofs)
    /\ ret' = <<>>
    /\ UNCHANGED bucket_map

dirty_list_unsorted(order) == order

\* BucketCache::dirty_list, for one iteration order of the dirty map
dirty_list_of(order) == Sort(order)

dirty_list ==
    /\ \E order \in IterOrders(dirty) : ret' = dirty_list_of(order)
    /\ Called("dirty_list", 0)
    /\ UNCHANGED <<bucket_map, dirty, marked>>

clear_dirty_evicting ==
    /\ dirty' = EmptyMap
    /\ bucket_map' = EmptyMap
    /\ marked' = {}
    /\ Called("clear_dirty", 0)
    /\ ret' = <<>>

\* BucketCache::clear_dirty
clear_dirty ==
    /\ dirty' = EmptyMap
    /\ marked' = {}
    /\ Called("clear_dirty", 0)
    /\ ret' = <<>>
    /\ UNCHANGED bucket_map

\* BucketCache::contains
contains(bucket_ofs) ==
    /\ ret' = (bucket_ofs \in DOMAIN bucket_map)
    /\ Called("contains", bucket_ofs)
    /\ UNCHANGED <<bucket_map, dirty, marked>>

insert_dirtying(bucket_ofs, b) ==
    /\ bucket_map' = MapInsert(bucket_map, bucket_ofs, b)
    /\ dirty' = MapInsert(dirty, bucket_ofs, TRUE)
    /\ Called("insert", bucket_ofs)
    /\ ret' = <<>>
    /\ UNCHANGED marked

\* BucketCache::insert
insert(bucket_ofs, b) ==
    /\ bucket_map' = MapInsert(bucket_map, bucket_ofs, b)
    /\ Called("insert", bucket_ofs)
    /\ ret' = <<>>
    /\ UNCHANGED <<dirty, marked>>

update_not_dirtying(bucket_ofs, b) ==
    /\ bucket_map' = MapInsert(bucket_map, bucket_ofs, b)
    /\ marked' = marked \cup {bucket_ofs}
    /\ Called("update", bucket_ofs)
    /\ ret' = <<>>
    /\ UNCHANGED dirty

\* BucketCache::update: bucket_map.insert, then self.dirty(bucket_ofs)
update(bucket_ofs, b) ==
    /\ bucket_map' = MapInsert(bucket_map, bucket_ofs, b)
    /\ dirty' = MapInsert(dirty, bucket_ofs, TRUE)
    /\ marked' = marked \cup {bucket_ofs}
    /\ Called("update", bucket_ofs)
    /\ ret' = <<>>

----------------------------------------------------------------------------
(* Integers on the wire.                                                   *)
(* A u32 is held as its four base-256 digits, least significant first, a   *)
(* u64 as its eight: the representation is exact for the whole range and   *)
(* keeps every byte of a value visible to the codec.                       *)

Zeros(n) == [i \in 1..n |-> 0]

Reverse(s) == [i \in 1..Len(s) |-> s[Len(s) + 1 - i]]

\* the u32 with value n
U32(n) == <<n % 256, (n \div 256) % 256, (n \div 65536) % 256, (n \div 16777216) % 256>>

\* `x as u64` of a u32
AsU64(v) == v \o Zeros(4)

\* `x as u32` of a u64
AsU32(v) == SubSeq(v, 1, 4)

\* v <= n for a u32 v and a bound n < 2^24
U32Leq(v, n) == v[4] = 0 /\ v[1] + 256 * v[2] + 65536 * v[3] <= n

\* ser::w32
w32(le, v) == IF le THEN v ELSE Reverse(v)

\* ser::w64
w64(le, v) == IF le THEN v ELSE Reverse(v)

\* ser::woff_t
woff_t(lfs, le, v) == IF lfs THEN w64(le, v) ELSE w32(le, AsU32(v))

----------------------------------------------------------------------------
(* The byte source handed to from_reader: an `impl Read` over r.buf.  The  *)
(* bytes arrive as one chunk (r.cut = 0) or as two chained chunks, the     *)
(* first r.cut bytes long.  A read position is the number of bytes already *)
(* consumed.                                                               *)

KEY_SMALL == 4
BUCKET_AVAIL == 6

Eof == "UnexpectedEof"
Invalid == "Other"

\* Read::read_exact of n bytes: all of them or UnexpectedEof
read_exact(r, pos, n) ==
    IF pos + n <= Len(r.buf)
    THEN [ok |-> TRUE, val |-> SubSeq(r.buf, pos + 1, pos + n), pos |-> pos + n]
    ELSE [ok |-> FALSE, val |-> <<>>, pos |-> Len(r.buf)]

\* ReadBytesExt::read_u32::<LittleEndian>
read_u32_le(r, pos) == read_exact(r, pos, 4)

\* ReadBytesExt::read_u64::<LittleEndian>
read_u64_le(r, pos) == read_exact(r, pos, 8)

\* Read::read into a zeroed n-byte buffer: one call returns what the current
\* chunk still holds, at most n bytes; the rest of the buffer keeps its zeros
read(r, pos, n) ==
    LET first == Min(r.cut, Len(r.buf))
        left == IF pos < first THEN first - pos ELSE Len(r.buf) - pos
        k == Min(n, left)
    IN [ok |-> TRUE, val |-> SubSeq(r.buf, pos + 1, pos + k) \o Zeros(n - k), pos |-> pos + k]

read_key_exact(r, pos, n) == read_exact(r, pos, n)

\* `rdr.read(&mut key_start)?` on `[0; KEY_SMALL]`
read_key(r, pos, n) == read(r, pos, n)

Err(e) == [ok |-> FALSE, err |-> e, val |-> <<>>, pos |-> 0, elems_read |-> 0]
Ok(v, p) == [ok |-> TRUE, err |-> "", val |-> <<v>>, pos |-> p, elems_read |-> 0]

----------------------------------------------------------------------------
(* BucketElement *)

\* BucketElement::from_reader, reading from position pos
BucketElement_from_reader(lfs, r, pos) ==
    LET h == read_u32_le(r, pos) IN
    IF ~h.ok THEN Err(Eof) ELSE
    LET k == read_key(r, h.pos, KEY_SMALL) IN
    LET d == IF lfs THEN read_u64_le(r, k.pos) ELSE read_u32_le(r, k.pos) IN
    IF ~d.ok THEN Err(Eof) ELSE
    LET ks == read_u32_le(r, d.pos) IN
    IF ~ks.ok THEN Err(Eof) ELSE
    LET ds == read_u32_le(r, ks.pos) IN
    IF ~ds.ok THEN Err(Eof) ELSE
    Ok([hash |-> h.val,
        key_start |-> k.val,
        data_ofs |-> IF lfs THEN d.val ELSE AsU64(d.val),
        key_size |-> ks.val,
        data_size |-> ds.val], ds.pos)

\* BucketElement::serialize
BucketElement_serialize(e, lfs, le) ==
    w32(le, e.hash) \o e.key_start \o woff_t(lfs, le, e.data_ofs)
        \o w32(le, e.key_size) \o w32(le, e.data_size)

----------------------------------------------------------------------------
(* AvailElem: size (4 bytes) then offset (4 or 8 bytes) *)

\* AvailElem::from_reader
AvailElem_from_reader(lfs, r, pos) ==
    LET s == read_u32_le(r, pos) IN
    IF ~s.ok THEN Err(Eof) ELSE
    LET o == IF lfs THEN read_u64_le(r, s.pos) ELSE read_u32_le(r, s.pos) IN
    IF ~o.ok THEN Err(Eof) ELSE
    Ok([av_size |-> s.val, av_ofs |-> IF lfs THEN o.val ELSE AsU64(o.val)], o.pos)

\* AvailElem::serialize
AvailElem_serialize(a, lfs, le) == w32(le, a.av_size) \o woff_t(lfs, le, a.av_ofs)

----------------------------------------------------------------------------
(* Bucket *)

\* `for _idx in 0..BUCKET_AVAIL { AvailElem::from_reader(..)?; avail.push(..) }`
RECURSIVE ReadAvail(_, _, _, _, _)
ReadAvail(lfs, r, pos, n, acc) ==
    IF n = 0 THEN Ok(acc, pos)
    ELSE LET a == AvailElem_from_reader(lfs, r, pos) IN
         IF ~a.ok THEN Err(a.err)
         ELSE ReadAvail(lfs, r, a.pos, n - 1, Append(acc, a.val[1]))

\* `for _idx in 0..header.bucket_elems { BucketElement::from_reader(..)?; tab.push(..) }`
\* done is the number of from_reader calls made so far
RECURSIVE ReadTab(_, _, _, _, _, _)
ReadTab(lfs, r, pos, n, acc, done) ==
    IF n = 0 THEN [Ok(acc, pos) EXCEPT !.elems_read = done]
    ELSE LET e == BucketElement_from_reader(lfs, r, pos) IN
         IF ~e.ok THEN [Err(e.err) EXCEPT !.elems_read = done + 1]
         ELSE ReadTab(lfs, r, e.pos, n - 1, Append(acc, e.val[1]), done + 1)

ValidGeometryStrict(hdr, bits, count) ==
    U32Leq(count, hdr.bucket_elems - 1) /\ U32Leq(bits, hdr.dir_bits)

\* `count <= header.bucket_elems && bits <= header.dir_bits`
ValidGeometry(hdr, bits, count) ==
    U32Leq(count, hdr.bucket_elems) /\ U32Leq(bits, hdr.dir_bits)

\* Bucket::from_reader
Bucket_from_reader(hdr, r) ==
    LET av_count == read_u32_le(r, 0) IN
    IF ~av_count.ok THEN Err(Eof) ELSE
    LET padding == read_u32_le(r, av_count.pos) IN
    IF ~padding.ok THEN Err(Eof) ELSE
    LET avail == ReadAvail(hdr.is_lfs, r, padding.pos, BUCKET_AVAIL, <<>>) IN
    IF ~avail.ok THEN Err(avail.err) ELSE
    LET bits == read_u32_le(r, avail.pos) IN
    IF ~bits.ok THEN Err(Eof) ELSE
    LET count == read_u32_le(r, bits.pos) IN
    IF ~count.ok THEN Err(Eof) ELSE
    IF ~ValidGeometry(hdr, bits.val, count.val) THEN Err(Invalid) ELSE
    LET tab == ReadTab(hdr.is_lfs, r, count.pos, hdr.bucket_elems, <<>>, 0) IN
    IF ~tab.ok THEN tab ELSE
    [Ok([av_count |-> av_count.val,
         avail |-> avail.val[1],
         bits |-> bits.val,
         count |-> count.val,
         tab |-> tab.val[1]], tab.pos) EXCEPT !.elems_read = tab.elems_read]

RECURSIVE Flatten(_)
Flatten(ss) == IF ss = <<>> THEN <<>> ELSE Head(ss) \o Flatten(Tail(ss))

\* Bucket::serialize (after its assert on avail.len())
Bucket_serialize(b, lfs, le) ==
    w32(le, b.av_count)
        \o (IF lfs THEN w32(le, U32(0)) ELSE <<>>)
        \o Flatten([i \in 1..Len(b.avail) |-> AvailElem_serialize(b.avail[i], lfs, le)])
        \o w32(le, b.bits)
        \o w32(le, b.count)
        \o Flatten([i \in 1..Len(b.tab) |-> BucketElement_serialize(b.tab[i], lfs, le)])

----------------------------------------------------------------------------
(* Codec runs: serialize one structure, optionally shorten the bytes or    *)
(* deliver them in two chunks, then decode.                                *)

ElemSamples ==
    [hash : {U32(1), U32(16909060)},
     key_start : {<<9, 8, 7, 6>>},
     data_ofs : {AsU64(U32(5)), <<0, 0, 0, 0, 1, 0, 0, 0>>},
     key_size : {U32(3)},
     data_size : {U32(0), U32(7)}]

TabSamples ==
    {e \in ElemSamples : e.hash = U32(1) /\ e.data_ofs = AsU64(U32(5))}

AvailSample == [i \in 1..BUCKET_AVAIL |-> [av_size |-> U32(i), av_ofs |-> AsU64(U32(16 * i))]]

BucketSamples ==
    [av_count : {U32(2)},
     avail : {AvailSample},
     bits : {U32(n) : n \in 0..(DirBits + 1)},
     count : {U32(n) : n \in 0..(BucketElems + 1)},
     tab : [1..BucketElems -> TabSamples]]

DefaultElem == CHOOSE e \in TabSamples : TRUE
DefaultBucket == CHOOSE b \in BucketSamples : TRUE
NoSource == [buf |-> <<>>, cut |-> 0]
NoResult == [ok |-> FALSE, err |-> "", val |-> <<>>, pos |-> 0, elems_read |-> 0]

IdleCodec ==
    /\ kind = "none"
    /\ header = [is_lfs |-> TRUE, bucket_elems |-> BucketElems, dir_bits |-> DirBits]
    /\ is_le = TRUE
    /\ elem = DefaultElem
    /\ bucket = DefaultBucket
    /\ rdr = NoSource
    /\ out = NoResult
    /\ cpc = "start"

InitCodecInputs ==
    /\ kind \in {"elem", "bucket"}
    /\ header \in [is_lfs : BOOLEAN, bucket_elems : {BucketElems}, dir_bits : {DirBits}]
    /\ is_le \in BOOLEAN
    /\ elem \in (IF kind = "elem" THEN ElemSamples ELSE {DefaultElem})
    /\ bucket \in (IF kind = "bucket" THEN BucketSamples ELSE {DefaultBucket})
    /\ rdr = NoSource
    /\ out = NoResult
    /\ cpc = "start"

\* caller: elem.serialize(is_lfs, is_le)
SerializeElem ==
    /\ kind = "elem" /\ cpc = "start"
    /\ rdr' = [buf |-> BucketElement_serialize(elem, header.is_lfs, is_le), cut |-> 0]
    /\ cpc' = "bytes"
    /\ UNCHANGED <<kind, header, is_le, elem, bucket, out>>

\* caller: bucket.serialize(is_lfs, is_le); the assert_eq on avail.len() holds
SerializeBucket ==
    /\ kind = "bucket" /\ cpc = "start"
    /\ Len(bucket.avail) = BUCKET_AVAIL
    /\ rdr' = [buf |-> Bucket_serialize(bucket, header.is_lfs, is_le), cut |-> 0]
    /\ cpc' = "bytes"
    /\ UNCHANGED <<kind, header, is_le, elem, bucket, out>>

\* the source ends one byte earlier
Truncate ==
    /\ cpc = "bytes"
    /\ Len(rdr.buf) > 0
    /\ rdr' = [rdr EXCEPT !.buf = SubSeq(rdr.buf, 1, Len(rdr.buf) - 1)]
    /\ UNCHANGED <<kind, header, is_le, elem, bucket, out, cpc>>

\* the source hands out its first c bytes as a chunk of their own
Split(c) ==
    /\ cpc = "bytes"
    /\ rdr.cut = 0
    /\ c < Len(rdr.buf)
    /\ rdr' = [rdr EXCEPT !.cut = c]
    /\ UNCHANGED <<kind, header, is_le, elem, bucket, out, cpc>>

\* caller: BucketElement::from_reader(is_lfs, &mut rdr)
DecodeElem ==
    /\ kind = "elem" /\ cpc = "bytes"
    /\ out' = BucketElement_from_reader(header.is_lfs, rdr, 0)
    /\ cpc' = "done"
    /\ UNCHANGED <<kind, header, is_le, elem, bucket, rdr>>

\* caller: Bucket::from_reader(&header, &mut rdr)
DecodeBucket ==
    /\ kind = "bucket" /\ cpc = "bytes"
    /\ out' = Bucket_from_reader(header, rdr)
    /\ cpc' = "done"
    /\ UNCHANGED <<kind, header, is_le, elem, bucket, rdr>>

----------------------------------------------------------------------------
(* build_dir_size.  A u32 is held as <<low 16 bits, high 16 bits>>.        *)

Half == 2^16

\* the u32 with value n
Word(n) == <<n % Half, n \div Half>>

\* a < b on u32
WordLt(a, b) == a[2] < b[2] \/ (a[2] = b[2] /\ a[1] < b[1])

\* `x <<= 1` on u32
Shl1(x) == <<(x[1] * 2) % Half, (x[2] * 2 + (x[1] * 2) \div Half) % Half>>

GDBM_HASH_BITS == 31

BlockSizes ==
    {Word(1), Word(32), Word(33), Word(64), Word(65), Word(512), Word(4096),
     <<0, 32768>>, <<65535, 65535>>}

IdleDir ==
    /\ block_sz = Word(512)
    /\ db_is_lfs = TRUE
    /\ dir_size = Word(64)
    /\ dir_bits = 3
    /\ dpc = "done"

\* build_dir_size entry: `let mut dir_size = 8 * 8; let mut dir_bits = 3;`
InitDirInputs ==
    /\ block_sz \in BlockSizes
    /\ db_is_lfs \in BOOLEAN
    /\ dir_size = Word(8 * 8)
    /\ dir_bits = 3
    /\ dpc = "loop"

\* `while dir_size < block_sz && dir_bits < GDBM_HASH_BITS - 3`
LoopCond == WordLt(dir_size, block_sz) /\ dir_bits < GDBM_HASH_BITS - 3

\* loop body: `dir_size <<= 1; dir_bits += 1;`
LoopStep ==
    /\ dpc = "loop"
    /\ LoopCond
    /\ dir_size' = Shl1(dir_size)
    /\ dir_bits' = dir_bits + 1
    /\ UNCHANGED <<block_sz, db_is_lfs, dpc>>

\* dir::dirent_elem_size: bytes per directory entry
dirent_elem_size(lfs) == IF lfs THEN 8 ELSE 4

\* loop exit: `(dir_size, dir_bits)` is returned
LoopExit ==
    /\ dpc = "loop"
    /\ ~LoopCond
    /\ dpc' = "done"
    /\ UNCHANGED <<block_sz, db_is_lfs, dir_size, dir_bits>>

----------------------------------------------------------------------------
(* Specifications *)

Init == IdleCache /\ IdleCodec /\ IdleDir

Next ==
    \/ \E o \in Offsets, b \in BucketIds : insert(o, b) /\ UNCHANGED <<codecVars, dirVars>>
    \/ \E o \in Offsets, b \in BucketIds : update(o, b) /\ UNCHANGED <<codecVars, dirVars>>
    \/ \E o \in Offsets : Dirty(o) /\ UNCHANGED <<codecVars, dirVars>>
    \/ \E o \in Offsets : contains(o) /\ UNCHANGED <<codecVars, dirVars>>
    \/ dirty_list /\ UNCHANGED <<codecVars, dirVars>>
    \/ clear_dirty /\ UNCHANGED <<codecVars, dirVars>>

Spec == Init /\ [][Next]_vars

InitCodec == IdleCache /\ InitCodecInputs /\ IdleDir

NextCodec ==
    \/ SerializeElem /\ UNCHANGED <<cacheVars, dirVars>>
    \/ SerializeBucket /\ UNCHANGED <<cacheVars, dirVars>>
    \/ Truncate /\ UNCHANGED <<cacheVars, dirVars>>
    \/ \E c \in 1..MaxCut : Split(c) /\ UNCHANGED <<cacheVars, dirVars>>
    \/ DecodeElem /\ UNCHANGED <<cacheVars, dirVars>>
    \/ DecodeBucket /\ UNCHANGED <<cacheVars, dirVars>>

SpecCodec == InitCodec /\ [][NextCodec]_vars

InitDir == IdleCache /\ IdleCodec /\ InitDirInputs

NextDir ==
    \/ LoopStep /\ UNCHANGED <<cacheVars, codecVars>>
    \/ LoopExit /\ UNCHANGED <<cacheVars, codecVars>>

SpecDir == InitDir /\ [][NextDir]_vars

----------------------------------------------------------------------------
(* Properties of the BucketCache (Spec) *)

Keys(m) == DOMAIN m

StrictlyAscending(s) == \A i \in 1..(Len(s) - 1) : s[i] < s[i + 1]

\* C1: once update(o, b) or dirty(o) has been called, every dirty_list()
\* made before the next clear_dirty() returns a list that contains o,
\* whatever other calls happened in between.
C1_DirtyUntilCleared ==
    lastOp = "dirty_list" => \A o \in marked : o \in Range(ret)

C1_Witness ==
    /\ lastOp = "dirty_list"
    /\ Cardinality(marked) >= 2
    /\ \E o \in marked : o \in Range(ret) /\ o \in Keys(pre.bucket_map)

\* C2: dirty_list() returns exactly the dirty offsets, each once, in
\* ascending order, whatever order the dirty map yields them in.
C2_DirtyListSorted ==
    lastOp = "dirty_list" =>
        /\ StrictlyAscending(ret)
        /\ Range(ret) = Keys(dirty)
        /\ Len(ret) = Cardinality(Keys(dirty))

C2_Witness ==
    /\ lastOp = "dirty_list"
    /\ Len(ret) >= 3
    /\ ret[1] = 100

\* C3: clear_dirty() leaves no dirty offset (dirty_list() then returns the
\* empty list) and keeps every loaded offset with the bucket it had; no call
\* at all removes an offset from the loaded map.
C3_ClearKeepsLoaded ==
    /\ lastOp = "clear_dirty" =>
        /\ \A order \in IterOrders(dirty) : dirty_list_of(order) = <<>>
        /\ \A o \in Keys(pre.bucket_map) :
              o \in Keys(bucket_map) /\ bucket_map[o] = pre.bucket_map[o]
    /\ Keys(pre.bucket_map) \subseteq Keys(bucket_map)

C3_Witness ==
    /\ lastOp = "clear_dirty"
    /\ Cardinality(Keys(pre.dirty)) >= 2
    /\ Cardinality(Keys(bucket_map)) >= 3

\* C4: only update and dirty add to the dirty set, and they add their own
\* offset; insert(o, b) stores b at o and leaves the dirty set and every
\* other loaded bucket as they were; contains and dirty_list change nothing;
\* dirty(o) leaves the loaded map as it was.
C4_Frame ==
    /\ Keys(dirty) # Keys(pre.dirty) =>
          \/ lastOp \in {"update", "dirty"} /\ Keys(dirty) = Keys(pre.dirty) \cup {lastOfs}
          \/ lastOp = "clear_dirty"
    /\ lastOp = "insert" =>
          /\ dirty = pre.dirty
          /\ lastOfs \in Keys(bucket_map)
          /\ \A o \in Keys(pre.bucket_map) \ {lastOfs} :
                o \in Keys(bucket_map) /\ bucket_map[o] = pre.bucket_map[o]
    /\ lastOp \in {"contains", "dirty_list"} =>
          dirty = pre.dirty /\ bucket_map = pre.bucket_map
    /\ lastOp = "dirty" => bucket_map = pre.bucket_map

C4_Witness ==
    /\ lastOp = "insert"
    /\ lastOfs \in Keys(pre.bucket_map)
    /\ bucket_map[lastOfs] # pre.bucket_map[lastOfs]
    /\ \E o \in Offsets : o # lastOfs /\ o \in Keys(dirty)
    /\ lastOfs \notin Keys(dirty)

\* C10: every dirty offset has a bucket in the loaded map, so every offset
\* dirty_list() returns satisfies contains(offset).
C10_DirtyIsLoaded ==
    Keys(dirty) \subseteq Keys(bucket_map)

----------------------------------------------------------------------------
(* Properties of the codec (SpecCodec) *)

OffsetWidth == IF header.is_lfs THEN 8 ELSE 4

\* layout the decoder walks: av_count, padding, 6 avail, bits, count, table
BitsPos == 4 + 4 + BUCKET_AVAIL * (4 + OffsetWidth)
CountPos == BitsPos + 4
TabPos == CountPos + 4
ElemWidth == 4 + KEY_SMALL + OffsetWidth + 4 + 4
FullSize == IF kind = "elem" THEN ElemWidth ELSE TabPos + header.bucket_elems * ElemWidth

FieldAt(p) == SubSeq(rdr.buf, p + 1, p + 4)

GeometryExceeded ==
    \/ ~U32Leq(FieldAt(CountPos), header.bucket_elems)
    \/ ~U32Leq(FieldAt(BitsPos), header.dir_bits)

\* C5: when the count field the decoder reads exceeds bucket_elems, or the
\* bits field exceeds dir_bits, Bucket::from_reader fails with the
\* invalid-bucket error (not the end-of-input error), returns no Bucket and
\* has read no table element; when both are within range, boundary values
\* included, it never fails with the invalid-bucket error.
C5_InvalidGeometryRejected ==
    (kind = "bucket" /\ cpc = "done" /\ Len(rdr.buf) >= TabPos) =>
        /\ GeometryExceeded =>
              /\ ~out.ok
              /\ out.err = Invalid
              /\ out.err # Eof
              /\ out.val = <<>>
              /\ out.elems_read = 0
        /\ ~GeometryExceeded => out.err # Invalid

C5_Witness ==
    /\ kind = "bucket" /\ cpc = "done"
    /\ Len(rdr.buf) >= TabPos
    /\ Len(rdr.buf) < FullSize
    /\ FieldAt(CountPos) = U32(header.bucket_elems + 1)
    /\ FieldAt(BitsPos) = U32(header.dir_bits)
    /\ out.err = Invalid

C5_WitnessBoundary ==
    /\ kind = "bucket" /\ cpc = "done"
    /\ FieldAt(CountPos) = U32(header.bucket_elems)
    /\ FieldAt(BitsPos) = U32(header.dir_bits)
    /\ out.ok

WholeSource(bytes) == rdr = [buf |-> bytes, cut |-> 0]

\* C6: a Bucket with count <= bucket_elems, bits <= dir_bits, 6 avail
\* elements and bucket_elems table elements, serialized and decoded under
\* one geometry (either offset width, either byte order), decodes to itself.
C6_BucketRoundTrip ==
    (/\ kind = "bucket" /\ cpc = "done"
     /\ WholeSource(Bucket_serialize(bucket, header.is_lfs, is_le))
     /\ U32Leq(bucket.count, header.bucket_elems)
     /\ U32Leq(bucket.bits, header.dir_bits)
     /\ Len(bucket.avail) = BUCKET_AVAIL
     /\ Len(bucket.tab) = header.bucket_elems)
    => (out.ok /\ out.val = <<bucket>>)

\* data_ofs fits the offset field of the chosen width
Representable(e) == header.is_lfs \/ SubSeq(e.data_ofs, 5, 8) = Zeros(4)

\* C7: a BucketElement whose data_ofs fits the offset width, serialized and
\* decoded under either offset width and either byte order, decodes to
\* itself.
C7_ElementRoundTrip ==
    (/\ kind = "elem" /\ cpc = "done"
     /\ WholeSource(BucketElement_serialize(elem, header.is_lfs, is_le))
     /\ Representable(elem))
    => (out.ok /\ out.val = <<elem>>)

\* C9: a source that ends before the last byte of the structure makes
\* from_reader fail with the end-of-input error and return no structure.
\* (A shortened bucket whose count/bits fields are present and out of range
\* may report the invalid-bucket error instead.)
C9_TruncationRejected ==
    (cpc = "done" /\ Len(rdr.buf) < FullSize) =>
        /\ ~out.ok
        /\ out.val = <<>>
        /\ \/ out.err = Eof
           \/ kind = "bucket" /\ Len(rdr.buf) >= TabPos /\ GeometryExceeded

----------------------------------------------------------------------------
(* Properties of build_dir_size (SpecDir) *)

\* first pair of the doubling sequence from (size, bits) with
\* size >= blk or bits = GDBM_HASH_BITS - 3
RECURSIVE FirstPair(_, _, _)
FirstPair(size, bits, blk) ==
    IF ~WordLt(size, blk) \/ bits >= GDBM_HASH_BITS - 3
    THEN <<size, bits>>
    ELSE FirstPair(Shl1(size), bits + 1, blk)

\* C8: build_dir_size returns the first pair of the sequence that starts at
\* (8 * offset width, 3) and doubles the size while incrementing the bits,
\* with dir_size >= block_sz or dir_bits = GDBM_HASH_BITS - 3; dir_bits stays
\* within 3 .. GDBM_HASH_BITS - 3; with 8-byte offsets 512 gives (512, 6)
\* and 4096 gives (4096, 9).
C8_DirSizeFollowsOffsetWidth ==
    dpc = "done" =>
        /\ <<dir_size, dir_bits>> = FirstPair(Word(8 * dirent_elem_size(db_is_lfs)), 3, block_sz)
        /\ 3 <= dir_bits /\ dir_bits <= GDBM_HASH_BITS - 3
        /\ (db_is_lfs /\ block_sz = Word(512)) => (dir_size = Word(512) /\ dir_bits = 6)
        /\ (db_is_lfs /\ block_sz = Word(4096)) => (dir_size = Word(4096) /\ dir_bits = 9)

====
